---------------------------- MODULE Spec2Model ----------------------------
(***************************************************************************)
(* pkglist (src/src/main.rs): a timeline of pacman install / upgrade /     *)
(* removal events, parsed from /var/log/pacman.log, merged with the live   *)
(* list of explicitly installed packages and cached in                     *)
(* /tmp/pkglist_cache.json.                                                *)
(*                                                                         *)
(* Two specifications:                                                     *)
(*   Spec      sequential runs of main() against an environment (pacman's  *)
(*             output, the log file, the cache file);                      *)
(*   SpecSave  save_cache / load_cache executed by concurrent processes    *)
(*             on one file system, one system call per step.               *)
(*                                                                         *)
(* Strings that the program compares (timestamps) are sequences of byte    *)
(* codes; package names are opaque strings.                                *)
(***************************************************************************)
EXTENDS Integers, Sequences, FiniteSets

VARIABLES
    \* ---- environment
    pacman,          \* what `pacman -Qeq` answers: [success, stdout]
    log,             \* /var/log/pacman.log: [exists, lines, nl]
    unreadable,      \* paths that exist but cannot be opened for reading
    dir,             \* directory of /tmp: path -> inode (0: no such file)
    inodes,          \* inode -> file content (a sequence of tokens)
    \* ---- one invocation of main()
    pc, run,
    current_pkgs, current_pkg_hash, current_log_size,
    decision,        \* outcome of the match at main.rs:146: "none"|"hit"|"miss"
    loaded,          \* what load_cache returned: <<>> or <<record>>
    log_content,     \* what the last read_log_file().unwrap_or_default() gave
    cache_data,      \* <<>> before main.rs:146, then <<CacheData>>
    output,          \* the lines printed, in order: <<pkg, date, status>>
    sizeQueries, logReads, parses, saves, save_result,
    prev,            \* what the previous run saw: [valid, pkgs, size]
    \* ---- processes of SpecSave
    wpc, wrec, wbuf, wfd, woff,   \* writers inside save_cache
    wlast,                        \* the writer whose rename succeeded last
    rpc, rfd, rres                \* a reader inside load_cache

envVars  == <<pacman, log, unreadable>>
fsVars   == <<dir, inodes>>
mainVars == <<pc, run, current_pkgs, current_pkg_hash, current_log_size,
              decision, loaded, log_content, cache_data, output,
              sizeQueries, logReads, parses, saves, save_result, prev>>
saveVars == <<wpc, wrec, wbuf, wfd, woff, wlast, rpc, rfd, rres>>
vars     == <<envVars, fsVars, mainVars, saveVars>>

---------------------------------------------------------------------------
(* Bounds of the model.                                                    *)
MaxLines  == 2      \* lines in the log
MaxRuns   == 2      \* consecutive invocations of the program
NumInodes == 4      \* inodes the file system can hold

---------------------------------------------------------------------------
(* Byte strings.                                                           *)

\* "0000-00-00T00:00:00+0000", main.rs:182
SENTINEL == <<48,48,48,48,45,48,48,45,48,48,84,48,48,58,48,48,58,48,48,43,48,48,48,48>>
\* "-01-01T10:00:00+0000": the tail shared by the log's timestamps
DateTail == <<45,48,49,45,48,49,84,49,48,58,48,48,58,48,48,43,48,48,48,48>>
T2023 == <<50,48,50,51>> \o DateTail     \* "2023-01-01T10:00:00+0000"
T2024 == <<50,48,50,52>> \o DateTail     \* "2024-01-01T10:00:00+0000"
T2025 == <<50,48,50,53>> \o DateTail     \* "2025-01-01T10:00:00+0000"
TPlus == <<43,48,50,52>> \o DateTail     \* "+024-01-01T10:00:00+0000"

\* str::cmp: bytewise lexicographic order (date1.cmp(date2), main.rs:186)
StrLess(a, b) ==
    \E i \in 1..(Len(a) + 1) :
        /\ i <= Len(b)
        /\ \A j \in 1..(i - 1) : a[j] = b[j]
        /\ (i = Len(a) + 1 \/ a[i] < b[i])

StrLeq(a, b) == a = b \/ StrLess(a, b)

Pkgs == {"foo", "baz"}

---------------------------------------------------------------------------
(* The log.  A line of pacman.log is                                       *)
(*     [<date>] [ALPM] <action> <pkg><rest>                                *)
(* kept as its fields; `rest` is the number of bytes that follow the       *)
(* package token (" (1.0-1)" is 8, nothing is 0).                          *)

Line(d, a, p, r) == [date |-> d, action |-> a, pkg |-> p, rest |-> r]

LogLines ==
    { Line(T2024, "installed",   "foo", 8),   \* the spec's scenario line, 55 bytes
      Line(TPlus, "upgraded",    "foo", 8),
      Line(T2025, "removed",     "baz", 8),
      Line(T2025, "removed",     "baz", 0),   \* no version: 45 bytes
      Line(T2024, "reinstalled", "foo", 8) }  \* not an event of the grammar

\* number of bytes of a line, without its newline
LineLen(l) ==
    1 + Len(l.date) + 1 + 8 + Len(l.action) + 1 + Len(l.pkg) + l.rest

\* LOG_REGEX.captures(line) is Some: the action is one of the three keywords
RegexMatches(l) == l.action \in {"installed", "upgraded", "removed"}

\* byte length of a log content [lines, nl]: nl tells whether the last line
\* ends with '\n'
ByteLen(c) ==
    LET RECURSIVE Sum(_)
        Sum(i) == IF i = 0 THEN 0 ELSE Sum(i - 1) + LineLen(c.lines[i]) + 1
    IN  IF c.lines = <<>> THEN 0
        ELSE Sum(Len(c.lines)) - (IF c.nl THEN 0 ELSE 1)

EmptyContent == [lines |-> <<>>, nl |-> TRUE]

\* the minimum line length of the early rejection filter, main.rs:58
MinLineLen == 50

\* match action { ... }, main.rs:67-72
StatusOf(action) ==
    CASE action = "installed" -> "INS"
      [] action = "upgraded"  -> "UPG"
      [] action = "removed"   -> "REM"
      [] OTHER                -> "skip"

\* map.insert(key, value)
MapInsert(m, k, v) == [x \in DOMAIN m \cup {k} |-> IF x = k THEN v ELSE m[x]]

EmptyMap == [x \in {} |-> 0]

\* a variant that keeps, for a package, the event with the greatest date
ParseLineKeepsLatestDate(map, l) ==
    IF LineLen(l) < MinLineLen \/ ~RegexMatches(l) THEN map
    ELSE IF l.pkg \in DOMAIN map /\ StrLess(l.date, map[l.pkg].date) THEN map
    ELSE MapInsert(map, l.pkg, [date |-> l.date, status |-> StatusOf(l.action)])

\* the body of the while loop for one newline-terminated line, main.rs:58-81
ParseLine(map, l) ==
    IF LineLen(l) < MinLineLen THEN map
    ELSE IF ~RegexMatches(l) THEN map
    ELSE IF StatusOf(l.action) = "skip" THEN map
    ELSE MapInsert(map, l.pkg, [date |-> l.date, status |-> StatusOf(l.action)])

\* how many lines memchr(b'\n', ..) finds an end for, main.rs:53
TerminatedLines(c) ==
    IF c.nl THEN Len(c.lines) ELSE Len(c.lines) - 1

\* parse_log_entries, main.rs:49-84
parse_log_entries(c) ==
    LET RECURSIVE Loop(_, _)
        Loop(i, map) ==
            IF i > TerminatedLines(c) THEN map
            ELSE Loop(i + 1, ParseLine(map, c.lines[i]))
    IN  Loop(1, EmptyMap)

\* fs::metadata(path).map(|m| m.len()).unwrap_or(0), main.rs:36-40
\* (stat needs no read permission on the file)
get_log_size(l) == IF l.exists THEN ByteLen(l) ELSE 0

\* read_log_file().unwrap_or_default(), main.rs:120-126 and 153
read_log_file(l, unr) ==
    IF l.exists /\ "log" \notin unr
    THEN [lines |-> l.lines, nl |-> l.nl]
    ELSE EmptyContent

---------------------------------------------------------------------------
(* The installed-package source.                                           *)

\* a variant that does not look at the exit status
read_current_packages_any_status(p) ==
    SelectSeq(p.stdout, LAMBDA s : s /= "")

\* read_current_packages, main.rs:86-105: the non-empty lines of stdout when
\* the command succeeded, nothing otherwise
read_current_packages(p) ==
    IF p.success THEN SelectSeq(p.stdout, LAMBDA s : s /= "") ELSE <<>>

PkgCode(p) == CASE p = "foo" -> 1 [] p = "baz" -> 2 [] OTHER -> 3

\* a variant that does not depend on the order of the elements
calculate_pkg_hash_unordered(pkgs) ==
    LET RECURSIVE Fold(_, _)
        Fold(i, h) == IF i > Len(pkgs) THEN h
                      ELSE Fold(i + 1, h + PkgCode(pkgs[i]))
    IN  Fold(1, Len(pkgs) * 16)

\* calculate_pkg_hash, main.rs:42-47: the slice's length, then each element
\* in order.  DefaultHasher is modelled by an order-sensitive encoding that
\* has no collision on the lists of the model.
calculate_pkg_hash(pkgs) ==
    LET RECURSIVE Fold(_, _)
        Fold(i, h) == IF i > Len(pkgs) THEN h
                      ELSE Fold(i + 1, h * 4 + PkgCode(pkgs[i]))
    IN  Fold(1, Len(pkgs))

---------------------------------------------------------------------------
(* The cache file.  A file's content is a sequence of tokens, the units in *)
(* which serde_json's output is written and read back:                     *)
(*     {  "pkg_hash":n  "last_log_size":n  "<pkg>":{date,status} ...  }     *)

Tok(kind, n, pkg, date, status) == <<kind, n, pkg, date, status>>

TOpen       == Tok("{", 0, "", <<>>, "")
TClose      == Tok("}", 0, "", <<>>, "")
THash(n)    == Tok("pkg_hash", n, "", <<>>, "")
TSize(n)    == Tok("last_log_size", n, "", <<>>, "")
TEntry(p, i) == Tok("entry", 0, p, i.date, i.status)
TNul        == Tok("NUL", 0, "", <<>>, "")    \* a hole left by a write past the end

Kind(t) == t[1]

CacheData(h, s, d) == [pkg_hash |-> h, last_log_size |-> s, data |-> d]

\* the entries of a HashMap in one iteration order
RECURSIVE EntryTokens(_)
EntryTokens(m) ==
    IF DOMAIN m = {} THEN <<>>
    ELSE LET k == CHOOSE x \in DOMAIN m : TRUE
         IN  <<TEntry(k, m[k])>> \o EntryTokens([x \in DOMAIN m \ {k} |-> m[x]])

\* a variant that leaves the event map out
SerializeWithoutData(r) ==
    <<TOpen, THash(r.pkg_hash), TSize(r.last_log_size), TClose>>

\* serde_json::to_vec(data), main.rs:115, for the struct of main.rs:24-29
Serialize(r) ==
    <<TOpen, THash(r.pkg_hash), TSize(r.last_log_size)>>
        \o EntryTokens(r.data) \o <<TClose>>

\* a variant that fills what is missing with defaults
DecodeLenient(bytes) ==
    IF Len(bytes) >= 2 /\ Kind(bytes[2]) = "pkg_hash"
    THEN <<CacheData(bytes[2][2],
                     IF Len(bytes) >= 3 /\ Kind(bytes[3]) = "last_log_size"
                     THEN bytes[3][2] ELSE 0,
                     EmptyMap)>>
    ELSE <<>>

\* serde_json::from_slice(&bytes).ok(), main.rs:110: <<record>> when the bytes
\* are one complete object with both numbers and a map, <<>> otherwise
Decode(bytes) ==
    LET n == Len(bytes)
        wellFormed ==
            /\ n >= 4
            /\ Kind(bytes[1]) = "{"
            /\ Kind(bytes[2]) = "pkg_hash"
            /\ Kind(bytes[3]) = "last_log_size"
            /\ Kind(bytes[n]) = "}"
            /\ \A i \in 4..(n - 1) : Kind(bytes[i]) = "entry"
        RECURSIVE Entries(_, _)
        Entries(i, m) ==
            IF i > n - 1 THEN m
            ELSE Entries(i + 1,
                         MapInsert(m, bytes[i][3],
                                   [date |-> bytes[i][4], status |-> bytes[i][5]]))
    IN  IF wellFormed
        THEN <<CacheData(bytes[2][2], bytes[3][2], Entries(4, EmptyMap))>>
        ELSE <<>>

Paths  == {"cache", "tmp"}     \* /tmp/pkglist_cache.json and its .tmp sibling
Inodes == 1..NumInodes

\* fs::read(cache_file).ok(), main.rs:108-109: <<bytes>> or <<>>
ReadFile(d, ino, unr, path) ==
    IF d[path] = 0 \/ path \in unr THEN <<>> ELSE <<ino[d[path]]>>

\* load_cache, main.rs:107-111
load_cache(d, ino, unr) ==
    LET bytes == ReadFile(d, ino, unr, "cache")
    IN  IF bytes = <<>> THEN <<>> ELSE Decode(bytes[1])

\* save_cache run to its end with nothing else touching the directory,
\* main.rs:113-118: the temporary file takes the bytes and is renamed over
\* the target
SavedDir(d) == [d EXCEPT !["cache"] = 1, !["tmp"] = 0]
SavedInodes(ino, r) == [i \in Inodes |-> IF i = 1 THEN Serialize(r) ELSE <<>>]

---------------------------------------------------------------------------
(* Reconciliation and presentation, main.rs:173-202.                       *)

\* a variant that overwrites: pkg_set.insert(k, v)
OrInsertOverwrites(m, k, v) == MapInsert(m, k, v)

\* pkg_set.entry(k).or_insert_with(|| v), main.rs:180-182
OrInsert(m, k, v) == IF k \in DOMAIN m THEN m ELSE MapInsert(m, k, v)

\* a variant that dates the synthesized entry late
SynthesizedLate == [date |-> T2025, status |-> "INS"]

Synthesized == [date |-> SENTINEL, status |-> "INS"]

\* a variant that lists the packages of the event map only
ReconcileEventsOnly(data, pkgs) == data

\* a variant that lists the installed packages only
ReconcileInstalledOnly(data, pkgs) ==
    LET here == { pkgs[i] : i \in 1..Len(pkgs) }
    IN  [k \in here |-> IF k \in DOMAIN data THEN data[k] ELSE Synthesized]

\* main.rs:173-183: every cached event, then every installed package that
\* has none
Reconcile(data, pkgs) ==
    LET RECURSIVE Loop(_, _)
        Loop(i, m) == IF i > Len(pkgs) THEN m
                      ELSE Loop(i + 1, OrInsert(m, pkgs[i], Synthesized))
    IN  Loop(1, data)

\* the orders in which a HashMap may hand out its keys, main.rs:185
IterationOrders(m) ==
    LET n == Cardinality(DOMAIN m)
    IN  { o \in [1..n -> DOMAIN m] : \A i, j \in 1..n : i # j => o[i] # o[j] }

Entry(m, k) == [pkg |-> k, date |-> m[k].date, status |-> m[k].status]

\* a variant with the operands exchanged: date2.cmp(date1)
DateGreaterReversed(x, y) == StrLess(x.date, y.date)

\* the comparator of main.rs:186, date1.cmp(date2): x is Greater than y
DateGreater(x, y) == StrLess(y.date, x.date)

\* sort_unstable_by, main.rs:186, on the short slices of the model: each
\* element is moved left past the elements the comparator calls greater
SortByDate(list) ==
    LET RECURSIVE InsertTail(_, _)
        InsertTail(sorted, x) ==
            IF sorted = <<>> THEN <<x>>
            ELSE IF DateGreater(sorted[Len(sorted)], x)
                 THEN InsertTail(SubSeq(sorted, 1, Len(sorted) - 1), x)
                          \o <<sorted[Len(sorted)]>>
                 ELSE Append(sorted, x)
        RECURSIVE Loop(_, _)
        Loop(i, sorted) == IF i > Len(list) THEN sorted
                           ELSE Loop(i + 1, InsertTail(sorted, list[i]))
    IN  Loop(1, <<>>)

\* main.rs:185-202: the lines printed, for one iteration order of pkg_set
Printed(pkg_set, order) ==
    SortByDate([i \in 1..Len(order) |-> Entry(pkg_set, order[i])])

---------------------------------------------------------------------------
(* main(), main.rs:128-205.                                                *)

\* the guard of the first match arm, main.rs:147-148
CacheHit(opt, h, s) ==
    opt # <<>> /\ opt[1].pkg_hash = h /\ opt[1].last_log_size = s

\* a variant that rewrites on every run
NeedsRewriteAlways(cd, h, s) == TRUE

\* the condition of main.rs:164
NeedsRewrite(cd, h, s) == cd.pkg_hash # h \/ cd.last_log_size # s

\* main.rs:137-141
ReadCurrentPackages ==
    /\ pc = "start"
    /\ current_pkgs' = read_current_packages(pacman)
    /\ pc' = IF current_pkgs' = <<>> THEN "done" ELSE "size"
    /\ UNCHANGED <<envVars, fsVars, saveVars, run, current_pkg_hash,
                   current_log_size, decision, loaded, log_content, cache_data,
                   output, sizeQueries, logReads, parses, saves, save_result,
                   prev>>

\* main.rs:143-144
GetLogSize ==
    /\ pc = "size"
    /\ current_pkg_hash' = calculate_pkg_hash(current_pkgs)
    /\ current_log_size' = get_log_size(log)
    /\ sizeQueries' = sizeQueries + 1
    /\ pc' = "load"
    /\ UNCHANGED <<envVars, fsVars, saveVars, run, current_pkgs, decision,
                   loaded, log_content, cache_data, output, logReads, parses,
                   saves, save_result, prev>>

\* main.rs:146-151: load the cache; the first arm keeps a record that matches
LoadCache ==
    /\ pc = "load"
    /\ loaded' = load_cache(dir, inodes, unreadable)
    /\ IF CacheHit(loaded', current_pkg_hash, current_log_size)
       THEN /\ decision' = "hit"
            /\ cache_data' = loaded'
            /\ pc' = "recheck"
       ELSE /\ decision' = "miss"
            /\ cache_data' = cache_data
            /\ pc' = "reparse"
    /\ UNCHANGED <<envVars, fsVars, saveVars, run, current_pkgs,
                   current_pkg_hash, current_log_size, log_content, output,
                   sizeQueries, logReads, parses, saves, save_result, prev>>

\* a variant of the second arm that patches the events of the record it
\* loaded with the events of the parse
ReparsePatchesLoaded ==
    /\ pc = "reparse"
    /\ log_content' = read_log_file(log, unreadable)
    /\ logReads' = logReads + 1
    /\ parses' = parses + 1
    /\ LET new == parse_log_entries(log_content')
           old == IF loaded = <<>> THEN EmptyMap ELSE loaded[1].data
       IN  cache_data' =
               <<CacheData(current_pkg_hash, current_log_size,
                           [p \in DOMAIN old \cup DOMAIN new |->
                               IF p \in DOMAIN new THEN new[p] ELSE old[p]])>>
    /\ pc' = "recheck"
    /\ UNCHANGED <<envVars, fsVars, saveVars, run, current_pkgs,
                   current_pkg_hash, current_log_size, decision, loaded, output,
                   sizeQueries, saves, save_result, prev>>

\* main.rs:152-161: the second arm reads and parses the log and builds a
\* record that carries the current fingerprint and size
Reparse ==
    /\ pc = "reparse"
    /\ log_content' = read_log_file(log, unreadable)
    /\ logReads' = logReads + 1
    /\ parses' = parses + 1
    /\ cache_data' = <<CacheData(current_pkg_hash, current_log_size,
                                 parse_log_entries(log_content'))>>
    /\ pc' = "recheck"
    /\ UNCHANGED <<envVars, fsVars, saveVars, run, current_pkgs,
                   current_pkg_hash, current_log_size, decision, loaded, output,
                   sizeQueries, saves, save_result, prev>>

\* main.rs:164-171: when the record in hand disagrees with the current
\* fingerprint or size, read and parse again and save; `let _ =` drops the
\* result of save_cache
Recheck ==
    /\ pc = "recheck"
    /\ IF NeedsRewrite(cache_data[1], current_pkg_hash, current_log_size)
       THEN \E ok \in BOOLEAN :
              /\ log_content' = read_log_file(log, unreadable)
              /\ logReads' = logReads + 1
              /\ parses' = parses + 1
              /\ cache_data' = <<CacheData(current_pkg_hash, current_log_size,
                                           parse_log_entries(log_content'))>>
              /\ saves' = saves + 1
              /\ save_result' = IF ok THEN "ok" ELSE "err"
              /\ dir' = IF ok THEN SavedDir(dir) ELSE dir
              /\ inodes' = IF ok THEN SavedInodes(inodes, cache_data'[1])
                                 ELSE inodes
       ELSE UNCHANGED <<log_content, logReads, parses, cache_data, saves,
                        save_result, dir, inodes>>
    /\ pc' = "print"
    /\ UNCHANGED <<envVars, saveVars, run, current_pkgs, current_pkg_hash,
                   current_log_size, decision, loaded, output, sizeQueries,
                   prev>>

\* main.rs:173-204
PrintTimeline ==
    /\ pc = "print"
    /\ LET pkg_set == Reconcile(cache_data[1].data, current_pkgs)
       IN  \E order \in IterationOrders(pkg_set) :
               output' = Printed(pkg_set, order)
    /\ pc' = "done"
    /\ UNCHANGED <<envVars, fsVars, saveVars, run, current_pkgs,
                   current_pkg_hash, current_log_size, decision, loaded,
                   log_content, cache_data, sizeQueries, logReads, parses,
                   saves, save_result, prev>>

\* the user runs the program again
NextRun ==
    /\ pc = "done"
    /\ run < MaxRuns
    /\ run' = run + 1
    /\ prev' = [valid |-> current_pkgs # <<>>, pkgs |-> current_pkgs,
                size |-> current_log_size]
    /\ pc' = "start"
    /\ current_pkgs' = <<>>
    /\ current_pkg_hash' = 0
    /\ current_log_size' = 0
    /\ decision' = "none"
    /\ loaded' = <<>>
    /\ log_content' = EmptyContent
    /\ cache_data' = <<>>
    /\ output' = <<>>
    /\ sizeQueries' = 0
    /\ logReads' = 0
    /\ parses' = 0
    /\ saves' = 0
    /\ save_result' = "none"
    /\ UNCHANGED <<envVars, fsVars, saveVars>>

\* Another process changes the log while main() runs.  A run looks at the
\* log twice, at main.rs:144 (its size) and at main.rs:153 (its content);
\* what a change does to the run depends only on where it falls relative to
\* those two, so one change is taken between them.
BetweenSizeAndRead ==
    pc = "reparse" /\ get_log_size(log) = current_log_size

\* pacman appends a line to its log
LogAppend ==
    /\ BetweenSizeAndRead
    /\ log.exists
    /\ log.nl
    /\ Len(log.lines) < MaxLines
    /\ \E l \in LogLines :
           log' = [log EXCEPT !.lines = Append(log.lines, l)]
    /\ UNCHANGED <<pacman, unreadable, fsVars, mainVars, saveVars>>

\* logrotate moves the log away and leaves an empty one
LogRotate ==
    /\ BetweenSizeAndRead
    /\ log.lines # <<>>
    /\ log' = [exists |-> TRUE, lines |-> <<>>, nl |-> TRUE]
    /\ UNCHANGED <<pacman, unreadable, fsVars, mainVars, saveVars>>

---------------------------------------------------------------------------
(* The states a run can start from.                                        *)

PacmanAnswers ==
    { [success |-> FALSE, stdout |-> <<"foo">>] } \cup
    { [success |-> TRUE, stdout |-> o] :
        o \in { <<>>, <<"foo">>, <<"foo", "baz">>, <<"baz", "foo">>,
                <<"foo", "">>, <<"foo", "foo">> } }

LogContents ==
    { [lines |-> ls, nl |-> n] :
        ls \in UNION { [1..k -> LogLines] : k \in 0..MaxLines },
        n \in BOOLEAN } \ { [lines |-> <<>>, nl |-> FALSE] }

LogFiles ==
    { [exists |-> FALSE, lines |-> <<>>, nl |-> TRUE] } \cup
    { [exists |-> TRUE, lines |-> c.lines, nl |-> c.nl] : c \in LogContents }

ScenarioLog == [lines |-> <<Line(T2024, "installed", "foo", 8)>>, nl |-> TRUE]

\* events an earlier invocation may have cached
OldEvents ==
    [x \in Pkgs |-> IF x = "foo" THEN [date |-> T2023, status |-> "UPG"]
                                 ELSE [date |-> T2025, status |-> "REM"]]

\* records an earlier invocation may have left in the cache file
CachedRecords ==
    { CacheData(h, s, OldEvents) :
        h \in { calculate_pkg_hash(<<"foo">>),
                calculate_pkg_hash(<<"foo", "baz">>) },
        s \in { 0, ByteLen(ScenarioLog) } }

\* contents of the cache file: a complete record, or a record cut short
CacheContents ==
    { Serialize(r) : r \in CachedRecords } \cup
    { <<TOpen, THash(calculate_pkg_hash(<<"foo">>))>> }

NoInodes == [i \in Inodes |-> <<>>]

Writers == {"w1", "w2"}

SaveIdle ==
    /\ wpc = [w \in Writers |-> "idle"]
    /\ wrec = [w \in Writers |-> <<>>]
    /\ wbuf = [w \in Writers |-> <<>>]
    /\ wfd = [w \in Writers |-> 0]
    /\ woff = [w \in Writers |-> 0]
    /\ wlast = ""
    /\ rpc = "idle"
    /\ rfd = 0
    /\ rres = <<>>

Init ==
    /\ pacman \in PacmanAnswers
    /\ log \in LogFiles
    /\ \/ /\ dir = [p \in Paths |-> 0]
          /\ inodes = NoInodes
          /\ unreadable \in { {}, {"log"} }
       \/ /\ dir = [p \in Paths |-> IF p = "cache" THEN 1 ELSE 0]
          /\ \E c \in CacheContents :
                 inodes = [i \in Inodes |-> IF i = 1 THEN c ELSE <<>>]
          /\ unreadable \in { {}, {"log"} }
       \/ /\ dir = [p \in Paths |-> IF p = "cache" THEN 1 ELSE 0]
          /\ inodes = [i \in Inodes |->
                          IF i = 1
                          THEN Serialize(CacheData(calculate_pkg_hash(<<"foo">>),
                                                   0, OldEvents))
                          ELSE <<>>]
          /\ unreadable = {"cache"}
    /\ pc = "start"
    /\ run = 1
    /\ current_pkgs = <<>>
    /\ current_pkg_hash = 0
    /\ current_log_size = 0
    /\ decision = "none"
    /\ loaded = <<>>
    /\ log_content = EmptyContent
    /\ cache_data = <<>>
    /\ output = <<>>
    /\ sizeQueries = 0
    /\ logReads = 0
    /\ parses = 0
    /\ saves = 0
    /\ save_result = "none"
    /\ prev = [valid |-> FALSE, pkgs |-> <<>>, size |-> 0]
    /\ SaveIdle

Next ==
    \/ ReadCurrentPackages
    \/ GetLogSize
    \/ LoadCache
    \/ Reparse
    \/ Recheck
    \/ PrintTimeline
    \/ NextRun
    \/ LogAppend
    \/ LogRotate

Spec == Init /\ [][Next]_vars

---------------------------------------------------------------------------
(* Properties of main(), stated for Spec.                                  *)

\* the record the cache file holds: <<record>>, or <<>> when there is no
\* file or it does not decode
CacheFileRecord ==
    IF dir["cache"] = 0 THEN <<>> ELSE Decode(inodes[dir["cache"]])

Installed == { current_pkgs[i] : i \in 1..Len(current_pkgs) }

Events == cache_data[1].data

\* C1: a run that found the cache stale leaves, when it ends and save_cache
\* did not fail, a cache file holding the current fingerprint, the current
\* log length and the events of its parse.
C1_StaleRunPersistsRecord ==
    (pc = "done" /\ decision = "miss" /\ save_result # "err")
        => CacheFileRecord =
               <<CacheData(current_pkg_hash, current_log_size,
                           parse_log_entries(log_content))>>

\* C2: a run that follows a run with the same installed sequence and the
\* same log size takes the cache-hit path and does not read or parse the log.
C2_SecondRunHits ==
    (/\ run >= 2
     /\ prev.valid
     /\ decision # "none"
     /\ current_pkgs = prev.pkgs
     /\ current_log_size = prev.size)
        => (decision = "hit" /\ logReads = 0 /\ parses = 0)

\* C3: a run that loaded a record with the current fingerprint and another
\* log length reads and parses the log exactly once and calls save_cache
\* exactly once.
C3_LengthChangeOneParseOneSave ==
    (/\ pc \in {"print", "done"}
     /\ loaded # <<>>
     /\ loaded[1].pkg_hash = current_pkg_hash
     /\ loaded[1].last_log_size # current_log_size)
        => (logReads = 1 /\ parses = 1 /\ saves = 1)

\* C4: from the moment a run has hit the cache, no step of it reads or
\* parses the log, calls save_cache or changes the cache file or its
\* temporary sibling; the size query stays the only access to the log.
C4_CacheHitTouchesNothing ==
    [][ (decision' = "hit" /\ run' = run)
            => /\ logReads' = 0
               /\ parses' = 0
               /\ saves' = 0
               /\ sizeQueries' = 1
               /\ dir' = dir
               /\ inodes' = inodes ]_vars

C4_Witness ==
    /\ pc = "done"
    /\ decision = "hit"
    /\ output # <<>>
    /\ log.lines # <<>>

\* C7: a package that is installed and has an event is printed with the
\* date and status of that event, on every line that names it.
C7_HistoryWins ==
    (pc = "done" /\ cache_data # <<>>)
        => \A p \in Installed \cap DOMAIN Events :
               /\ \E i \in 1..Len(output) : output[i].pkg = p
               /\ \A i \in 1..Len(output) :
                      output[i].pkg = p
                          => /\ output[i].date = Events[p].date
                             /\ output[i].status = Events[p].status

C7_Witness ==
    /\ pc = "done"
    /\ cache_data # <<>>
    /\ \E p \in Installed \cap DOMAIN Events :
           /\ Events[p].status = "UPG"
           /\ \E i \in 1..Len(output) :
                  output[i] = [pkg |-> p, date |-> Events[p].date, status |-> "UPG"]

\* the event map of a run: the one it reconciles, and for a run that ended
\* before it had one, the one the log gives
RunEvents ==
    IF cache_data # <<>> THEN Events
    ELSE parse_log_entries(read_log_file(log, unreadable))

\* C8 as stated: at the end of every run, a package whose event is a removal
\* and that is not installed has been printed with status REM and the date
\* of that event.
C8_RemovedAlwaysListed ==
    pc = "done"
        => \A p \in DOMAIN RunEvents \ Installed :
               RunEvents[p].status = "REM"
                   => \E i \in 1..Len(output) :
                          output[i] = [pkg |-> p, date |-> RunEvents[p].date,
                                       status |-> "REM"]

\* C8, amended: at the end of a run whose installed list is not empty, a
\* package whose event is a removal and that is not installed has been
\* printed with status REM and the date of that event.
C8_RemovedStaysListed ==
    (pc = "done" /\ current_pkgs # <<>>)
        => \A p \in DOMAIN Events \ Installed :
               Events[p].status = "REM"
                   => \E i \in 1..Len(output) :
                          output[i] = [pkg |-> p, date |-> Events[p].date,
                                       status |-> "REM"]

C8_Witness ==
    /\ pc = "done"
    /\ cache_data # <<>>
    /\ decision = "miss"
    /\ "baz" \in DOMAIN Events \ Installed
    /\ Events["baz"].status = "REM"
    /\ \E i \in 1..Len(output) : output[i].pkg = "baz"

\* the last line of the content that is an event of the grammar for package p
LastEventLine(c, p) ==
    LET idx == { i \in 1..Len(c.lines) :
                   RegexMatches(c.lines[i]) /\ c.lines[i].pkg = p }
    IN  c.lines[CHOOSE i \in idx : \A j \in idx : j <= i]

\* C9: after a parse, every line of the log that matches the event grammar
\* has its package in the event map, with the timestamp and status of the
\* last such line, whatever the line's length and whether or not the last
\* line ends with a newline.
C9_EveryEventLineIsParsed ==
    (decision = "miss" /\ pc \in {"recheck", "print", "done"})
        => \A i \in 1..Len(log_content.lines) :
               RegexMatches(log_content.lines[i])
                   => LET p == log_content.lines[i].pkg
                          l == LastEventLine(log_content, p)
                      IN  /\ p \in DOMAIN Events
                          /\ Events[p] = [date |-> l.date,
                                          status |-> StatusOf(l.action)]

\* C10: the lines printed are in non-decreasing order of their timestamps.
C10_OutputSorted ==
    pc = "done"
        => \A i \in 1..(Len(output) - 1) :
               StrLeq(output[i].date, output[i + 1].date)

C10_Witness ==
    /\ pc = "done"
    /\ Len(output) >= 2
    /\ output[1].date # output[2].date

\* the lines of a content that parse_log_entries takes an event from for
\* package p: ended by a newline, long enough, matching the grammar
ParsedLines(c, p) ==
    { i \in 1..TerminatedLines(c) :
        /\ LineLen(c.lines[i]) >= MinLineLen
        /\ RegexMatches(c.lines[i])
        /\ c.lines[i].pkg = p }

\* C11: after a parse, a package with parsed event lines has in the event
\* map exactly the event of the last of them in log order, whatever the
\* dates of the earlier ones.
C11_LastLineInLogOrderWins ==
    (decision = "miss" /\ pc \in {"recheck", "print", "done"})
        => \A p \in Pkgs :
               LET idx == ParsedLines(log_content, p)
               IN  IF idx = {} THEN p \notin DOMAIN Events
                   ELSE LET l == log_content.lines[CHOOSE i \in idx :
                                                     \A j \in idx : j <= i]
                        IN  /\ p \in DOMAIN Events
                            /\ Events[p] = [date |-> l.date,
                                            status |-> StatusOf(l.action)]

\* two events for foo, the earlier one with the greater date
C11_Witness ==
    /\ pc = "done"
    /\ decision = "miss"
    /\ log_content = [lines |-> <<Line(T2024, "installed", "foo", 8),
                                  Line(TPlus, "upgraded", "foo", 8)>>,
                      nl |-> TRUE]
    /\ Events["foo"] = [date |-> TPlus, status |-> "UPG"]

\* the cache file is absent, cannot be read, or holds bytes that are not a
\* complete record
CacheUnusable ==
    \/ dir["cache"] = 0
    \/ "cache" \in unreadable
    \/ \A r \in CachedRecords : inodes[dir["cache"]] # Serialize(r)

\* C12: when the cache file is absent, unreadable or does not decode,
\* load_cache returns nothing and the run goes on as without a cache: it
\* takes the miss arm, reads and parses the log once, and prints the
\* reconciliation of that parse with the installed list.
C12_UnusableCacheIsNoCache ==
    (CacheUnusable /\ decision # "none")
        => /\ loaded = <<>>
           /\ decision = "miss"
           /\ pc \in {"recheck", "print", "done"}
                  => /\ logReads = 1
                     /\ parses = 1
                     /\ Events = parse_log_entries(log_content)
           /\ pc = "done"
                  => LET pkg_set == Reconcile(parse_log_entries(log_content),
                                              current_pkgs)
                     IN  \E order \in IterationOrders(pkg_set) :
                             output = Printed(pkg_set, order)

\* a run that found a record cut short and printed from a fresh parse
C12_Witness ==
    /\ pc = "done"
    /\ dir["cache"] # 0
    /\ "cache" \notin unreadable
    /\ Len(inodes[dir["cache"]]) = 2
    /\ log_content.lines # <<>>
    /\ DOMAIN Events # {}
    /\ output # <<>>

\* the command failed, or its output has no non-empty line
NoPackages ==
    \/ ~pacman.success
    \/ \A i \in 1..Len(pacman.stdout) : pacman.stdout[i] = ""

\* C14: when the installed-package command fails or names no package, the
\* run ends right after asking: nothing is printed, the log is neither
\* sized nor read nor parsed, and the cache is neither loaded nor written.
C14_NoPackagesNoWork ==
    (NoPackages /\ pc # "start")
        => /\ pc = "done"
           /\ current_pkgs = <<>>
           /\ output = <<>>
           /\ sizeQueries = 0
           /\ logReads = 0
           /\ parses = 0
           /\ decision = "none"
           /\ loaded = <<>>
           /\ cache_data = <<>>
           /\ saves = 0
           /\ save_result = "none"

\* the command failed after printing a name, with a log and a cache in place
C14_Witness ==
    /\ pc = "done"
    /\ ~pacman.success
    /\ pacman.stdout # <<>>
    /\ log.exists
    /\ log.lines # <<>>
    /\ dir["cache"] # 0
    /\ output = <<>>

\* C15: in a run with installed packages, a log that is missing or cannot
\* be read, and no cache file, the log size is 0, the content read is
\* empty, the event map is empty, and the output is one line per installed
\* package with the sentinel timestamp and status INS.
C15_NoLogNoCacheListsInstalled ==
    (/\ pc = "done"
     /\ current_pkgs # <<>>
     /\ dir["cache"] = 0
     /\ (~log.exists \/ "log" \in unreadable))
        => /\ current_log_size = 0
           /\ log_content = EmptyContent
           /\ Events = EmptyMap
           /\ Len(output) = Cardinality(Installed)
           /\ { output[i] : i \in 1..Len(output) } =
                  { [pkg |-> p, date |-> SENTINEL, status |-> "INS"] :
                        p \in Installed }

\* a record was loaded and its fingerprint or its log length is not the
\* current one
LoadedDisagrees ==
    /\ loaded # <<>>
    /\ \/ loaded[1].pkg_hash # current_pkg_hash
       \/ loaded[1].last_log_size # current_log_size

\* C16: when the loaded record disagrees with the current fingerprint or
\* log length, the record the run goes on with carries the current
\* fingerprint and length and, as events, exactly the parse of the log as
\* it is now, with no key or value of the loaded record's events; what is
\* printed is the reconciliation of that parse.
C16_StaleEventsFullyRegenerated ==
    (LoadedDisagrees /\ pc \in {"recheck", "print", "done"})
        => /\ decision = "miss"
           /\ log_content = read_log_file(log, unreadable)
           /\ cache_data =
                  <<CacheData(current_pkg_hash, current_log_size,
                              parse_log_entries(log_content))>>
           /\ pc = "done"
                  => LET pkg_set == Reconcile(parse_log_entries(log_content),
                                              current_pkgs)
                     IN  \E order \in IterationOrders(pkg_set) :
                             output = Printed(pkg_set, order)

\* the loaded record had events for foo and baz; the log has a line for foo
\* only, and the run ended with that event alone
C16_Witness ==
    /\ pc = "done"
    /\ LoadedDisagrees
    /\ loaded[1].data = OldEvents
    /\ DOMAIN Events = {"foo"}
    /\ Events["foo"] # OldEvents["foo"]
    /\ output # <<>>

\* positions of the output whose package has no event (a synthesized entry)
\* and whose package has one (a timestamp captured from the log)
SynthesizedAt == { i \in 1..Len(output) : output[i].pkg \notin DOMAIN Events }
CapturedAt    == { i \in 1..Len(output) : output[i].pkg \in DOMAIN Events }

\* C17 as stated: every synthesized entry is printed before every entry
\* with a timestamp captured from the log, whatever string of [0-9T:+-]+
\* was captured.
C17_SynthesizedBeforeAnyCapture ==
    pc = "done" => \A i \in SynthesizedAt : \A j \in CapturedAt : i < j

\* C17, amended: every synthesized entry is printed before every entry whose
\* captured timestamp is lexically greater than the sentinel, and after
\* every entry whose captured timestamp is lexically smaller.
C17_SynthesizedBeforeGreaterCapture ==
    pc = "done"
        => \A i \in SynthesizedAt : \A j \in CapturedAt :
               /\ output[i].date = SENTINEL
               /\ StrLess(SENTINEL, output[j].date) => i < j
               /\ StrLess(output[j].date, SENTINEL) => j < i

\* baz is installed without an event and printed first; foo follows with a
\* timestamp of the year 2024
C17_Witness ==
    /\ pc = "done"
    /\ Len(output) = 2
    /\ SynthesizedAt = {1}
    /\ output[1] = [pkg |-> "baz", date |-> SENTINEL, status |-> "INS"]
    /\ output[2].pkg = "foo"
    /\ output[2].date = T2024

\* the sequences with the elements of s in another order
OtherPermutations(s) ==
    { t \in [1..Len(s) -> Installed] :
        /\ t # s
        /\ \A x \in Installed :
               Cardinality({ i \in 1..Len(t) : t[i] = x }) =
                   Cardinality({ i \in 1..Len(s) : s[i] = x }) }

\* the loaded record has the current log length and the fingerprint of the
\* installed packages in another order
LoadedForPermutation ==
    /\ loaded # <<>>
    /\ loaded[1].last_log_size = current_log_size
    /\ \E t \in OtherPermutations(current_pkgs) :
           loaded[1].pkg_hash = calculate_pkg_hash(t)

\* C18: a record built for the same packages in another order, with the
\* log length unchanged, is stale: the run takes the miss arm and reads and
\* parses the log.
C18_PermutationIsStale ==
    (LoadedForPermutation /\ decision # "none")
        => /\ decision = "miss"
           /\ pc \in {"recheck", "print", "done"}
                  => /\ logReads = 1
                     /\ parses = 1
                     /\ Events = parse_log_entries(log_content)

\* the record was built for foo, baz; pacman now lists baz, foo
C18_Witness ==
    /\ pc = "done"
    /\ current_pkgs = <<"baz", "foo">>
    /\ LoadedForPermutation
    /\ loaded[1].pkg_hash = calculate_pkg_hash(<<"foo", "baz">>)
    /\ current_log_size > 0
    /\ parses = 1

\* C19: the record built in the miss arm has, as last_log_size, the byte
\* length of the content its events were parsed from, also when the log
\* changes between the size query and the read or when one of the two calls
\* fails.
C19_RecordSizeIsParsedLength ==
    (decision = "miss" /\ pc \in {"recheck", "print", "done"})
        => cache_data[1].last_log_size = ByteLen(log_content)

\* C20: at the end of a run with installed packages, the names printed are
\* the keys of the event map together with the installed packages, and no
\* name is printed twice, also when pacman lists a package twice.
C20_EachNameOnce ==
    (pc = "done" /\ current_pkgs # <<>>)
        => /\ { output[i].pkg : i \in 1..Len(output) } =
                  DOMAIN Events \cup Installed
           /\ \A i, j \in 1..Len(output) :
                  output[i].pkg = output[j].pkg => i = j

\* pacman listed foo twice and the log has an event for baz: two lines
C20_Witness ==
    /\ pc = "done"
    /\ current_pkgs = <<"foo", "foo">>
    /\ DOMAIN Events = {"baz"}
    /\ Len(output) = 2

---------------------------------------------------------------------------
(* save_cache and load_cache as processes on one file system, one system   *)
(* call per step (SpecSave).                                               *)

\* a variant that writes the target in place
TempPathIsTarget == "cache"

\* cache_file.with_extension("tmp"), main.rs:114: the same path for every
\* invocation
TempPath == "tmp"

Range(f) == { f[x] : x \in DOMAIN f }

\* inodes that a directory entry or an open descriptor refers to
InUse(d, fds, r) == (Range(d) \cup Range(fds) \cup {r}) \ {0}

\* the kernel drops the content of an inode nothing refers to
Collect(ino, d, fds, r) ==
    [i \in Inodes |-> IF i \in InUse(d, fds, r) THEN ino[i] ELSE <<>>]

\* write(fd, token) at a byte offset: the file grows as needed, a gap reads
\* as NUL
WriteAt(content, off, tok) ==
    IF off < Len(content)
    THEN [content EXCEPT ![off + 1] = tok]
    ELSE content \o [i \in 1..(off - Len(content)) |-> TNul] \o <<tok>>

\* main.rs:115, serde_json::to_vec and the open of fs::write:
\* open(temp_file, O_WRONLY | O_CREAT | O_TRUNC)
SaveOpen(w) ==
    /\ wpc[w] = "call"
    /\ wbuf' = [wbuf EXCEPT ![w] = Serialize(wrec[w][1])]
    /\ woff' = [woff EXCEPT ![w] = 0]
    /\ IF dir[TempPath] # 0
       THEN /\ inodes' = [inodes EXCEPT ![dir[TempPath]] = <<>>]
            /\ dir' = dir
            /\ wfd' = [wfd EXCEPT ![w] = dir[TempPath]]
            /\ wpc' = [wpc EXCEPT ![w] = "write"]
       ELSE LET free == Inodes \ InUse(dir, wfd, rfd)
            IN  IF free = {}
                THEN /\ wpc' = [wpc EXCEPT ![w] = "err"]
                     /\ UNCHANGED <<dir, inodes, wfd>>
                ELSE LET i == CHOOSE x \in free : \A y \in free : x <= y
                     IN  /\ dir' = [dir EXCEPT ![TempPath] = i]
                         /\ inodes' = [inodes EXCEPT ![i] = <<>>]
                         /\ wfd' = [wfd EXCEPT ![w] = i]
                         /\ wpc' = [wpc EXCEPT ![w] = "write"]
    /\ UNCHANGED <<envVars, mainVars, wrec, wlast, rpc, rfd, rres>>

\* main.rs:115, one write of fs::write's write_all; the descriptor is closed
\* after the last one
SaveWrite(w) ==
    /\ wpc[w] = "write"
    /\ LET done == woff[w] + 1 = Len(wbuf[w])
           fds  == [wfd EXCEPT ![w] = IF done THEN 0 ELSE wfd[w]]
           ino  == [inodes EXCEPT ![wfd[w]] =
                        WriteAt(inodes[wfd[w]], woff[w], wbuf[w][woff[w] + 1])]
       IN  /\ woff' = [woff EXCEPT ![w] = woff[w] + 1]
           /\ wfd' = fds
           /\ inodes' = Collect(ino, dir, fds, rfd)
           /\ wpc' = [wpc EXCEPT ![w] = IF done THEN "rename" ELSE "write"]
    /\ UNCHANGED <<envVars, mainVars, dir, wrec, wbuf, wlast, rpc, rfd, rres>>

\* main.rs:115, a write fails (disk full): `?` returns the error
SaveWriteFails(w) ==
    /\ wpc[w] = "write"
    /\ wpc' = [wpc EXCEPT ![w] = "err"]
    /\ wfd' = [wfd EXCEPT ![w] = 0]
    /\ inodes' = Collect(inodes, dir, wfd', rfd)
    /\ UNCHANGED <<envVars, mainVars, dir, wrec, wbuf, woff, wlast, rpc, rfd,
                   rres>>

\* main.rs:116, fs::rename(temp_file, cache_file)
SaveRename(w) ==
    /\ wpc[w] = "rename"
    /\ IF dir[TempPath] = 0
       THEN /\ wpc' = [wpc EXCEPT ![w] = "err"]
            /\ UNCHANGED <<dir, inodes, wlast>>
       ELSE /\ dir' = [p \in Paths |-> IF p = "cache" THEN dir[TempPath]
                                       ELSE IF p = TempPath THEN 0
                                       ELSE dir[p]]
            /\ inodes' = Collect(inodes, dir', wfd, rfd)
            /\ wlast' = w
            /\ wpc' = [wpc EXCEPT ![w] = "ok"]
    /\ UNCHANGED <<envVars, mainVars, wrec, wbuf, wfd, woff, rpc, rfd, rres>>

\* the process dies inside save_cache
SaveCrash(w) ==
    /\ wpc[w] \in {"write", "rename"}
    /\ wpc' = [wpc EXCEPT ![w] = "crashed"]
    /\ wfd' = [wfd EXCEPT ![w] = 0]
    /\ inodes' = Collect(inodes, dir, wfd', rfd)
    /\ UNCHANGED <<envVars, mainVars, dir, wrec, wbuf, woff, wlast, rpc, rfd,
                   rres>>

\* main.rs:108, the open of fs::read(cache_file)
LoadOpen ==
    /\ rpc = "call"
    /\ IF dir["cache"] = 0
       THEN /\ rpc' = "done"
            /\ rfd' = 0
       ELSE /\ rpc' = "read"
            /\ rfd' = dir["cache"]
    /\ rres' = <<>>
    /\ UNCHANGED <<envVars, mainVars, fsVars, wpc, wrec, wbuf, wfd, woff,
                   wlast>>

\* main.rs:108, the read to the end of fs::read; rres keeps the bytes
LoadRead ==
    /\ rpc = "read"
    /\ rres' = <<inodes[rfd]>>
    /\ rfd' = 0
    /\ rpc' = "done"
    /\ inodes' = Collect(inodes, dir, wfd, 0)
    /\ UNCHANGED <<envVars, mainVars, dir, wpc, wrec, wbuf, wfd, woff, wlast>>

\* another load_cache
LoadAgain ==
    /\ rpc = "done"
    /\ rpc' = "call"
    /\ rres' = <<>>
    /\ UNCHANGED <<envVars, mainVars, fsVars, wpc, wrec, wbuf, wfd, woff,
                   wlast, rfd>>

\* the record in the cache file before any save_cache of SpecSave
OldRecord ==
    CacheData(calculate_pkg_hash(<<"foo">>), ByteLen(ScenarioLog),
              [x \in {"foo"} |-> [date |-> T2024, status |-> "INS"]])

\* the records the invocations save
SaveRecords ==
    { CacheData(calculate_pkg_hash(<<"foo">>), 0, EmptyMap),
      CacheData(calculate_pkg_hash(<<"foo", "baz">>), ByteLen(ScenarioLog),
                OldEvents) }

InitSave ==
    /\ pacman = [success |-> FALSE, stdout |-> <<>>]
    /\ log = [exists |-> FALSE, lines |-> <<>>, nl |-> TRUE]
    /\ unreadable = {}
    /\ \/ /\ dir = [p \in Paths |-> 0]
          /\ inodes = NoInodes
       \/ /\ dir = [p \in Paths |-> IF p = "cache" THEN 1 ELSE 0]
          /\ inodes = [i \in Inodes |->
                          IF i = 1 THEN Serialize(OldRecord) ELSE <<>>]
    /\ pc = "save"
    /\ run = 1
    /\ current_pkgs = <<>>
    /\ current_pkg_hash = 0
    /\ current_log_size = 0
    /\ decision = "none"
    /\ loaded = <<>>
    /\ log_content = EmptyContent
    /\ cache_data = <<>>
    /\ output = <<>>
    /\ sizeQueries = 0
    /\ logReads = 0
    /\ parses = 0
    /\ saves = 0
    /\ save_result = "none"
    /\ prev = [valid |-> FALSE, pkgs |-> <<>>, size |-> 0]
    /\ wpc \in [Writers -> {"idle", "call"}]
    /\ wrec \in [Writers -> {<<>>} \cup { <<r>> : r \in SaveRecords }]
    /\ \A w \in Writers : (wpc[w] = "idle") <=> (wrec[w] = <<>>)
    /\ wbuf = [w \in Writers |-> <<>>]
    /\ wfd = [w \in Writers |-> 0]
    /\ woff = [w \in Writers |-> 0]
    /\ wlast = ""
    /\ rpc = "call"
    /\ rfd = 0
    /\ rres = <<>>

NextSave ==
    \/ \E w \in Writers :
         \/ SaveOpen(w)
         \/ SaveWrite(w)
         \/ SaveWriteFails(w)
         \/ SaveRename(w)
         \/ SaveCrash(w)
    \/ LoadOpen
    \/ LoadRead
    \/ LoadAgain

SpecSave == InitSave /\ [][NextSave]_vars

---------------------------------------------------------------------------
(* Properties of save_cache, stated for SpecSave.                          *)

Active == { w \in Writers : wpc[w] # "idle" }

\* the content of the target path: <<bytes>>, or <<>> when there is no file
Target == IF dir["cache"] = 0 THEN <<>> ELSE <<inodes[dir["cache"]]>>

\* C5: with one process inside save_cache, every step leaves the target
\* path with the content it had or gives it the complete new record (also
\* when the process fails or dies on the way), a load_cache never reads
\* anything but a complete old or new record, and a save_cache that returned
\* Ok has put the new record in place.
C5_SingleWriterNeverPartial ==
    /\ [][ \A w \in Writers :
             Active = {w}
                 => (Target' = Target \/ Target' = <<Serialize(wrec[w][1])>>) ]_vars
    /\ [](\A w \in Writers :
            Active = {w}
                => /\ (rpc = "done" /\ rres # <<>>)
                       => Decode(rres[1]) \in {<<OldRecord>>, wrec[w]}
                   /\ wpc[w] = "ok" => Target = <<Serialize(wrec[w][1])>>)

\* a process died in the middle of writing the temporary file and a reader
\* came by: the target still holds the old record
C5_Witness ==
    \E w \in Writers :
        /\ Active = {w}
        /\ wpc[w] = "crashed"
        /\ dir[TempPath] # 0
        /\ Len(inodes[dir[TempPath]]) \in 1..(Len(wbuf[w]) - 1)
        /\ Target = <<Serialize(OldRecord)>>
        /\ rpc = "done"
        /\ rres = Target

\* C6: with two invocations inside save_cache at once, the target path
\* holds at every moment the complete old record or the complete record of
\* one of the writers, and once every writer is through, the record of the
\* writer whose rename came last.
C6_ConcurrentWritersNeverCorrupt ==
    /\ Target # <<>>
           => Target[1] \in {Serialize(OldRecord)}
                                \cup { Serialize(wrec[w][1]) : w \in Active }
    /\ (wlast # "" /\ \A w \in Active : wpc[w] \in {"ok", "err", "crashed"})
           => Target = <<Serialize(wrec[wlast][1])>>


\* C13: once the only invocation of save_cache has returned Ok for a record,
\* a load_cache of the path returns that record: the same pkg_hash, the
\* same last_log_size and the same data.
C13_SaveThenLoadRoundTrip ==
    \A w \in Writers :
        (Active = {w} /\ wpc[w] = "ok")
            => LET got == load_cache(dir, inodes, unreadable)
               IN  /\ got # <<>>
                   /\ got[1].pkg_hash = wrec[w][1].pkg_hash
                   /\ got[1].last_log_size = wrec[w][1].last_log_size
                   /\ got[1].data = wrec[w][1].data

\* a record with events was saved and a load_cache that followed read it back
C13_Witness ==
    \E w \in Writers :
        /\ Active = {w}
        /\ wpc[w] = "ok"
        /\ DOMAIN wrec[w][1].data = {"foo", "baz"}
        /\ rpc = "done"
        /\ rres # <<>>
        /\ Decode(rres[1]) = wrec[w]
=============================================================================
